---- MODULE Spec2Model ----
(***************************************************************************)
(* Model of dashboard.py: the gameweek-range points helper                 *)
(* (get_points_for_range), the points-contribution calculation             *)
(* (build_points_contribution) and the overlay that compares players       *)
(* (show_overlay, build_radar).                                            *)
(*                                                                         *)
(* The two datasets the script loads (players, weekly) are chosen in Init  *)
(* and never change.  Under Spec every action is one call of a function of *)
(* the script; `out' records the call and what it produced.  Under         *)
(* SessionSpec the actions are the user's events and the runs of the       *)
(* script on st.session_state; a run is carried to its end (ScriptRun) or  *)
(* stopped by an event that arrives meanwhile (StopRun), at a call of st.* *)
(* or an access to st.session_state, keeping what it has written to        *)
(* st.session_state so far.                                                *)
(* Percentages ("% of Total", one decimal) are kept in tenths of a         *)
(* percent, so 62 stands for 6.2; they are computed as the script does,    *)
(* in double precision: 23 of 80 points are 28.7, not 28.8.                *)
(***************************************************************************)
EXTENDS Integers, Sequences, FiniteSets, TLC

VARIABLES players, weekly, out, session_state, pc, button, page

vars == <<players, weekly, out, session_state, pc, button, page>>

(***************************************************************************)
(* Bounds                                                                  *)
(***************************************************************************)
MaxGW == 2
MaxRecords == 2

\* of the option list of a selectbox or radio, the entries a user's choice
\* is drawn from: the first MaxOptions
MaxOptions == 2

\* chosen[:2], compare_players[:2]: an overlay involves at most two players
MaxCompared == 2

\* the entry "None" of the two player selectors
NoPlayer == 0

Positions == {"GK", "DEF", "MID", "FWD"}
PlayerIds == 1..MaxCompared
Rounds == 1..MaxGW

(***************************************************************************)
(* Weekly records.  A match line is one of a few kinds of appearance; the  *)
(* key "defensive_contribution" is absent from the record of a player who  *)
(* did not play, as in exports that predate the field.  A player's name    *)
(* (web_name) is identified with the player's id.                          *)
(***************************************************************************)
DidNotPlay ==
    [total_points |-> 0, minutes |-> 0, goals_scored |-> 0, assists |-> 0,
     clean_sheets |-> 0, goals_conceded |-> 0, yellow_cards |-> 0,
     red_cards |-> 0, own_goals |-> 0, saves |-> 0, penalties_saved |-> 0,
     penalties_missed |-> 0, bonus |-> 0]

SubAppearance ==
    [total_points |-> 1, minutes |-> 40, goals_scored |-> 0, assists |-> 0,
     clean_sheets |-> 1, goals_conceded |-> 0, yellow_cards |-> 0,
     red_cards |-> 0, own_goals |-> 0, saves |-> 2, penalties_saved |-> 0,
     penalties_missed |-> 0, bonus |-> 0, defensive_contribution |-> 6]

FullMatch ==
    [total_points |-> 15, minutes |-> 90, goals_scored |-> 1, assists |-> 1,
     clean_sheets |-> 1, goals_conceded |-> 0, yellow_cards |-> 0,
     red_cards |-> 0, own_goals |-> 0, saves |-> 3, penalties_saved |-> 1,
     penalties_missed |-> 0, bonus |-> 3, defensive_contribution |-> 12]

BadMatch ==
    [total_points |-> -1, minutes |-> 60, goals_scored |-> 0, assists |-> 0,
     clean_sheets |-> 0, goals_conceded |-> 3, yellow_cards |-> 1,
     red_cards |-> 1, own_goals |-> 1, saves |-> 4, penalties_saved |-> 0,
     penalties_missed |-> 1, bonus |-> 0, defensive_contribution |-> 10]

MatchKinds == {DidNotPlay, SubAppearance, FullMatch, BadMatch}

WithRound(k, r) == [f \in DOMAIN k \cup {"round"} |-> IF f = "round" THEN r ELSE k[f]]

Records == {WithRound(k, r) : k \in MatchKinds, r \in Rounds}

\* A player's history: at most one record per round, in round order.
Histories ==
    {h \in UNION {[1..n -> Records] : n \in 1..MaxRecords} :
        \A i \in 1..(Len(h) - 1) : h[i]["round"] < h[i + 1]["round"]}

RECURSIVE TotalRecords(_, _)
TotalRecords(w, ids) ==
    IF ids = {} THEN 0
    ELSE LET p == CHOOSE x \in ids : TRUE
         IN  Len(w[p]) + TotalRecords(w, ids \ {p})

(***************************************************************************)
(* Data access                                                             *)
(***************************************************************************)
\* weekly.get(str(player_id), [])
WeeklyGet(player_id) ==
    IF player_id \in DOMAIN weekly THEN weekly[player_id] ELSE << >>

\* df[(df["round"] >= gw1) & (df["round"] <= gw2)]
InRange(r, gw1, gw2) == r["round"] >= gw1 /\ r["round"] <= gw2

FilterRange(history, gw1, gw2) ==
    SelectSeq(history, LAMBDA r : InRange(r, gw1, gw2))

\* Series.sum()
RECURSIVE SeriesSum(_)
SeriesSum(s) == IF s = << >> THEN 0 ELSE Head(s) + SeriesSum(Tail(s))

\* the series F(row) over the rows of df, summed
SumOver(df, F(_)) == SeriesSum([i \in 1..Len(df) |-> F(df[i])])

\* df_hist.get("defensive_contribution", pd.Series(0, ...)).fillna(0), one row
DcOf(r) ==
    IF "defensive_contribution" \in DOMAIN r THEN r["defensive_contribution"] ELSE 0

Min(a, b) == IF a < b THEN a ELSE b

(***************************************************************************)
(* get_points_for_range                                                    *)
(***************************************************************************)
get_points_for_range_excl(player_id, gw1, gw2) ==
    LET history == WeeklyGet(player_id)
    IN  IF history = << >> THEN 0
        ELSE SumOver(SelectSeq(history,
                         LAMBDA r : r["round"] >= gw1 /\ r["round"] < gw2),
                     LAMBDA r : r.total_points)

get_points_for_range(player_id, gw1, gw2) ==
    LET history == WeeklyGet(player_id)
    IN  IF history = << >> THEN 0
        ELSE SumOver(SelectSeq(history,
                         LAMBDA r : r["round"] >= gw1 /\ r["round"] <= gw2),
                     LAMBDA r : r.total_points)

(***************************************************************************)
(* build_points_contribution: per-match series                             *)
(***************************************************************************)
\* ((mins > 0) & (mins < 60)) * 1 + (mins >= 60) * 2
minutes_points(mins) ==
    (IF mins > 0 /\ mins < 60 THEN 1 ELSE 0) + (IF mins >= 60 THEN 2 ELSE 0)

goal_points_map(position) ==
    CASE position = "GK" -> 10
      [] position = "DEF" -> 6
      [] position = "MID" -> 5
      [] position = "FWD" -> 4
      [] OTHER -> 0

goals_points(r, position) == r.goals_scored * goal_points_map(position)

assist_points(r) == r.assists * 3

cs_mask_any_minutes(mins, clean_sheets) == clean_sheets > 0

cs_mask(mins, clean_sheets) == mins >= 60 /\ clean_sheets > 0

cs_points(r, position) ==
    LET m == IF cs_mask(r.minutes, r.clean_sheets) THEN 1 ELSE 0
    IN  IF position \in {"GK", "DEF"} THEN m * 4
        ELSE IF position = "MID" THEN m * 1
        ELSE m * 0

gc_points(r, position) ==
    IF position \in {"GK", "DEF"} THEN -(r.goals_conceded \div 2)
    ELSE 0 * r.goals_conceded

save_points(r) == (r.saves \div 3) * 1

pen_save_points(r) == r.penalties_saved * 5

pen_miss_points(r) == r.penalties_missed * (-2)

card_points(r) == r.yellow_cards * (-1) + r.red_cards * (-3)

og_points(r) == r.own_goals * (-2)

\* ((dc // 10).clip(upper=1)) * 2, per match
dc_points(dc, position) ==
    IF position = "DEF" THEN Min(dc \div 10, 1) * 2
    ELSE IF position \in {"MID", "FWD"} THEN Min(dc \div 12, 1) * 2
    ELSE 0 * dc

(***************************************************************************)
(* build_points_contribution: the eleven sums of the contrib dict          *)
(***************************************************************************)
MinutesCategory_summed(df_hist) ==
    minutes_points(SumOver(df_hist, LAMBDA r : r.minutes))

MinutesCategory(df_hist) ==
    SumOver(df_hist, LAMBDA r : minutes_points(r.minutes))

SavesCategory_summed(df_hist) ==
    (SumOver(df_hist, LAMBDA r : r.saves) \div 3) * 1

SavesCategory(df_hist) == SumOver(df_hist, save_points)

DefensiveContributionCategory_range(df_hist, position) ==
    dc_points(SumOver(df_hist, DcOf), position)

DefensiveContributionCategory(df_hist, position) ==
    SumOver(df_hist, LAMBDA r : dc_points(DcOf(r), position))

\* The percentage column is computed in IEEE-754 double precision.  A
\* positive double is kept as [m |-> digits, e |-> exponent]: m is a
\* sequence of digits of base 2^20, most significant first, standing for
\* the natural number N, and the value is N * 2^e; N has at most
\* MantissaBits significant bits (its bits below them are 0).
MantissaBits == 53

DigitBits == 20

DigitBase == 1048576

\* the largest 32-bit integer
MaxInt == 2147483647

Front(ds) == SubSeq(ds, 1, Len(ds) - 1)

Last(ds) == ds[Len(ds)]

\* 2^k, k <= DigitBits
Pow2(k) ==
    << 1, 2, 4, 8, 16, 32, 64, 128, 256, 512, 1024, 2048, 4096, 8192, 16384,
       32768, 65536, 131072, 262144, 524288, 1048576 >>[k + 1]

RECURSIVE IntDigits(_)
IntDigits(n) ==
    IF n = 0 THEN << >> ELSE Append(IntDigits(n \div DigitBase), n % DigitBase)

\* without the leading zero digits
RECURSIVE Strip(_)
Strip(ds) == IF ds # << >> /\ Head(ds) = 0 THEN Strip(Tail(ds)) ELSE ds

\* with leading zero digits, up to n digits
Pad(ds, n) == IF n > Len(ds) THEN [i \in 1..(n - Len(ds)) |-> 0] \o ds ELSE ds

\* bit k of N, bit 0 being the lowest
Bit(ds, k) ==
    IF k < 0 \/ k \div DigitBits >= Len(ds) THEN 0
    ELSE (ds[Len(ds) - k \div DigitBits] \div Pow2(k % DigitBits)) % 2

\* number of significant bits of N (ds without leading zero digit)
BitLen(ds) ==
    IF ds = << >> THEN 0
    ELSE DigitBits * (Len(ds) - 1)
           + (CHOOSE k \in 1..DigitBits : Pow2(k) > ds[1] /\ Pow2(k - 1) <= ds[1])

\* some bit of N below bit k is 1
AnyBitBelow(ds, k) ==
    \E i \in 1..Len(ds) :
        LET below == DigitBits * (Len(ds) - i)
        IN  /\ below < k
            /\ IF below + DigitBits <= k THEN ds[i] # 0
               ELSE ds[i] % Pow2(k - below) # 0

\* N + v * DigitBase^p, for a ds of more than p digits
RECURSIVE PlusDigit(_, _, _)
PlusDigit(ds, p, v) ==
    IF v = 0 THEN ds
    ELSE IF ds = << >> THEN IntDigits(v)
    ELSE IF p > 0 THEN Append(PlusDigit(Front(ds), p - 1, v), Last(ds))
    ELSE Append(PlusDigit(Front(ds), 0, (Last(ds) + v) \div DigitBase),
                (Last(ds) + v) % DigitBase)

\* N with its drop lowest bits cleared
RECURSIVE ClearLow(_, _)
ClearLow(ds, drop) ==
    IF ds = << >> \/ drop = 0 THEN ds
    ELSE IF drop >= DigitBits THEN Append(ClearLow(Front(ds), drop - DigitBits), 0)
    ELSE Append(Front(ds), (Last(ds) \div Pow2(drop)) * Pow2(drop))

\* N + s, 0 < s < 1 if sticky and s = 0 if not, rounded to the nearest
\* multiple of 2^drop, ties to the even multiple (drop >= 1)
RoundAt(digits, drop, sticky) ==
    LET ds == Pad(digits, drop \div DigitBits + 1)
        up == /\ Bit(ds, drop - 1) = 1
              /\ (sticky \/ Bit(ds, drop) = 1 \/ AnyBitBelow(ds, drop - 1))
    IN  Strip(IF up
              THEN PlusDigit(ClearLow(ds, drop), drop \div DigitBits,
                             Pow2(drop % DigitBits))
              ELSE ClearLow(ds, drop))

\* the double nearest to (N + s) * 2^e, ties to even
RoundNearestEven(ds, e, sticky) ==
    IF BitLen(ds) > MantissaBits
    THEN [m |-> RoundAt(ds, BitLen(ds) - MantissaBits, sticky), e |-> e]
    ELSE [m |-> ds, e |-> e]

\* long division: the next digit of the quotient r / d (r < d) and the
\* remainder left, bit by bit when r * DigitBase is too large a number
RECURSIVE QuotientBits(_, _, _, _)
QuotientBits(q, r, d, k) ==
    IF k = 0 THEN [q |-> q, r |-> r]
    ELSE IF 2 * r >= d THEN QuotientBits(2 * q + 1, 2 * r - d, d, k - 1)
    ELSE QuotientBits(2 * q, 2 * r, d, k - 1)

QuotientDigit(r, d) ==
    IF d <= MaxInt \div DigitBase
    THEN [q |-> (r * DigitBase) \div d, r |-> (r * DigitBase) % d]
    ELSE QuotientBits(0, r, d, DigitBits)

\* digits of the quotient until it has more than MantissaBits significant
\* bits, the remainder left and the number f of fraction digits
RECURSIVE QuotientDigits(_, _, _, _)
QuotientDigits(ds, r, d, f) ==
    IF BitLen(ds) > MantissaBits THEN [ds |-> ds, r |-> r, f |-> f]
    ELSE LET step == QuotientDigit(r, d)
         IN  QuotientDigits(Strip(Append(ds, step.q)), step.r, d, f + 1)

\* n / d in doubles, for integers n > 0, d > 0
DoubleDiv(n, d) ==
    LET q == QuotientDigits(IntDigits(n \div d), n % d, d, 0)
    IN  RoundNearestEven(q.ds, 0 - DigitBits * q.f, q.r # 0)

\* the digits of N * c + carry
RECURSIVE TimesSmall(_, _, _)
TimesSmall(ds, c, carry) ==
    IF ds = << >> THEN IntDigits(carry)
    ELSE Append(TimesSmall(Front(ds), c, (Last(ds) * c + carry) \div DigitBase),
                (Last(ds) * c + carry) % DigitBase)

\* x * c in doubles, for a small integer c > 0
DoubleTimes(x, c) == RoundNearestEven(TimesSmall(x.m, c, 0), x.e, FALSE)

\* N \div 2^drop, for a result that is small
RECURSIVE ShiftInt(_, _)
ShiftInt(ds, drop) ==
    IF ds = << >> THEN 0
    ELSE IF drop >= DigitBits THEN ShiftInt(Front(ds), drop - DigitBits)
    ELSE ShiftInt(Front(ds), 0) * Pow2(DigitBits - drop) + Last(ds) \div Pow2(drop)

\* rint(x): the nearest integer, ties to even (x.e < 0 for a quotient of
\* 32-bit integers)
DoubleRint(x) == ShiftInt(RoundAt(x.m, 0 - x.e, FALSE), 0 - x.e)

\* (df["Points"] / total_points * 100).round(1), in tenths of a percent:
\* round(1) is rint(x * 10) / 10, and the arithmetic is symmetric in the
\* sign of Points
PctOfTotal(points, total_points) ==
    IF total_points > 0
    THEN IF points = 0 THEN 0
         ELSE LET abs == IF points < 0 THEN 0 - points ELSE points
                  pct == DoubleTimes(DoubleDiv(abs, total_points), 100)
                  tenths == DoubleRint(DoubleTimes(pct, 10))
              IN  IF points < 0 THEN 0 - tenths ELSE tenths
    ELSE 0

RECURSIVE ContribFrame(_, _, _)
ContribFrame(keys, values, total_points) ==
    IF keys = << >> THEN << >>
    ELSE << [Category |-> Head(keys), Points |-> Head(values),
             Pct |-> PctOfTotal(Head(values), total_points)] >>
         \o ContribFrame(Tail(keys), Tail(values), total_points)

ContribKeys ==
    << "Minutes", "Goals", "Assists", "Clean Sheets", "Goals Conceded",
       "Saves", "Penalties", "Cards", "Own Goals", "Bonus",
       "Defensive Contribution" >>

build_points_contribution(df_hist, position) ==
    IF df_hist = << >>
    THEN [df |-> ContribFrame(ContribKeys, [i \in 1..11 |-> 0], 0),
          total_points |-> 0]
    ELSE
    LET total_points == SumOver(df_hist, LAMBDA r : r.total_points)
        values ==
          << MinutesCategory(df_hist),
             SumOver(df_hist, LAMBDA r : goals_points(r, position)),
             SumOver(df_hist, assist_points),
             SumOver(df_hist, LAMBDA r : cs_points(r, position)),
             SumOver(df_hist, LAMBDA r : gc_points(r, position)),
             SavesCategory(df_hist),
             SumOver(df_hist, LAMBDA r : pen_save_points(r) + pen_miss_points(r)),
             SumOver(df_hist, card_points),
             SumOver(df_hist, og_points),
             SumOver(df_hist, LAMBDA r : r.bonus),
             DefensiveContributionCategory(df_hist, position) >>
    IN  [df |-> ContribFrame(ContribKeys, values, total_points),
         total_points |-> total_points]

(***************************************************************************)
(* Lookups in a contribution frame: d = df_c.set_index("Category")         *)
(***************************************************************************)
HasCategory(df_c, cat) == \E i \in 1..Len(df_c) : df_c[i].Category = cat

RowOf(df_c, cat) == df_c[CHOOSE i \in 1..Len(df_c) : df_c[i].Category = cat]

\* float(d.loc[cat, "Points"]) if cat in d.index else 0.0
PointsOf(df_c, cat) == IF HasCategory(df_c, cat) THEN RowOf(df_c, cat).Points ELSE 0

\* float(d.loc[cat, "% of Total"]) if cat in d.index else 0.0
PctOf(df_c, cat) == IF HasCategory(df_c, cat) THEN RowOf(df_c, cat).Pct ELSE 0

(***************************************************************************)
(* build_radar                                                             *)
(***************************************************************************)
RadarCategories ==
    << "Minutes", "Goals", "Assists", "Clean Sheets", "Saves", "Bonus",
       "Defensive Contribution" >>

build_radar(contrib_dfs, names) ==
    [i \in 1..Min(Len(names), Len(contrib_dfs)) |->
        LET values == [c \in 1..Len(RadarCategories) |->
                          PointsOf(contrib_dfs[i], RadarCategories[c])]
        IN  [name |-> names[i],
             r |-> values \o SubSeq(values, 1, 1),
             theta |-> RadarCategories \o << RadarCategories[1] >>]]

(***************************************************************************)
(* show_overlay                                                            *)
(***************************************************************************)
\* if max_pts > 0 and abs(pts - max_pts) < 1e-9
IsWinner_no_floor(pts, max_pts) == pts = max_pts

IsWinner(pts, max_pts) == max_pts > 0 /\ pts = max_pts

MaxOf(S) == CHOOSE x \in S : \A y \in S : y <= x

\* pts_per_player / pct_per_player: the dict filled over
\* zip(player_names, contrib_dfs), a later entry replacing an earlier key
RECURSIVE ZipDict(_, _)
ZipDict(keys, values) ==
    IF keys = << >> \/ values = << >> THEN << >>
    ELSE ZipDict(Tail(keys), Tail(values)) @@ (Head(keys) :> Head(values))

RECURSIVE PointsColumn(_, _)
PointsColumn(contrib_dfs, cat) ==
    IF contrib_dfs = << >> THEN << >>
    ELSE << PointsOf(Head(contrib_dfs), cat) >> \o PointsColumn(Tail(contrib_dfs), cat)

RECURSIVE PctColumn(_, _)
PctColumn(contrib_dfs, cat) ==
    IF contrib_dfs = << >> THEN << >>
    ELSE << PctOf(Head(contrib_dfs), cat) >> \o PctColumn(Tail(contrib_dfs), cat)

\* one row of the comparison table
ComparisonRow(cat, player_names, contrib_dfs) ==
    LET pts_per_player == ZipDict(player_names, PointsColumn(contrib_dfs, cat))
        pct_per_player == ZipDict(player_names, PctColumn(contrib_dfs, cat))
        keys == DOMAIN pts_per_player
        max_pts == IF keys # {} THEN MaxOf({pts_per_player[n] : n \in keys}) ELSE 0
    IN  [Category |-> cat,
         cells |->
           [j \in 1..Len(player_names) |->
              LET name == player_names[j]
                  pts == IF name \in keys THEN pts_per_player[name] ELSE 0
                  pct == IF name \in keys THEN pct_per_player[name] ELSE 0
              IN  [Player |-> name, pts |-> pts, pct |-> pct,
                   star |-> IsWinner(pts, max_pts)]]]

\* df_view = df_hist[cols].sort_values("round")
RECURSIVE InsertByRound(_, _)
InsertByRound(r, s) ==
    IF s = << >> THEN << r >>
    ELSE IF r["round"] < Head(s)["round"] THEN << r >> \o s
    ELSE << Head(s) >> \o InsertByRound(r, Tail(s))

RECURSIVE SortByRound(_)
SortByRound(df) ==
    IF df = << >> THEN << >>
    ELSE InsertByRound(df[Len(df)], SortByRound(SubSeq(df, 1, Len(df) - 1)))

GwColumns(pos) ==
    LET cols == << "round", "total_points", "goals_scored", "assists",
                   "clean_sheets", "goals_conceded", "bonus", "minutes",
                   "yellow_cards", "red_cards" >>
                \o (IF pos = "GK" THEN << "saves" >> ELSE << >>)
    IN  IF pos \notin {"GK", "DEF", "MID"}
        THEN SelectSeq(cols, LAMBDA c : c \notin {"clean_sheets", "goals_conceded"})
        ELSE cols

GwTable(name, gw1, gw2) ==
    LET pos == players[name]
        df_hist == FilterRange(WeeklyGet(name), gw1, gw2)
        cols == GwColumns(pos)
        sorted == SortByRound(df_hist)
    IN  [Player |-> name,
         columns |-> cols,
         rows |-> [i \in 1..Len(sorted) |->
                     [c \in 1..Len(cols) |-> sorted[i][cols[c]]]]]

EmptyOverlay ==
    [info |-> << >>, contrib_dfs |-> << >>, totals |-> << >>,
     meta_rows |-> << >>, single |-> << >>, comparison |-> << >>,
     radar |-> << >>, gw_tables |-> << >>]

\* the first loop over player_names: one entry per player that has history
RECURSIVE CollectContributions(_, _, _)
CollectContributions(player_names, gw1, gw2) ==
    IF player_names = << >> THEN << >>
    ELSE LET name == Head(player_names)
             pos == players[name]
             history == WeeklyGet(name)
             rest == CollectContributions(Tail(player_names), gw1, gw2)
         IN  IF history = << >> THEN rest
             ELSE LET built == build_points_contribution(
                                   FilterRange(history, gw1, gw2), pos)
                  IN  << [contrib_df |-> built.df,
                          total_pts |-> built.total_points,
                          meta_row |-> [Player |-> name, Position |-> pos,
                                        Points |-> built.total_points]] >>
                      \o rest

RECURSIVE Column(_, _)
Column(rows, field) ==
    IF rows = << >> THEN << >>
    ELSE << Head(rows)[field] >> \o Column(Tail(rows), field)

RECURSIVE ComparisonRows(_, _, _)
ComparisonRows(cats, player_names, contrib_dfs) ==
    IF cats = << >> THEN << >>
    ELSE << ComparisonRow(Head(cats), player_names, contrib_dfs) >>
         \o ComparisonRows(Tail(cats), player_names, contrib_dfs)

show_overlay(player_names, gw1, gw2) ==
    LET skipped == SelectSeq(player_names, LAMBDA n : WeeklyGet(n) = << >>)
        collected == CollectContributions(player_names, gw1, gw2)
        contrib_dfs == Column(collected, "contrib_df")
        totals == Column(collected, "total_pts")
        meta_rows == Column(collected, "meta_row")
        shown == SelectSeq(player_names,
                     LAMBDA n : FilterRange(WeeklyGet(n), gw1, gw2) # << >>)
    IN  IF contrib_dfs = << >>
        THEN [EmptyOverlay EXCEPT !.info = skipped]
        ELSE [info |-> skipped,
              contrib_dfs |-> contrib_dfs,
              totals |-> totals,
              meta_rows |-> meta_rows,
              single |-> IF Len(player_names) = 1 THEN contrib_dfs[1] ELSE << >>,
              comparison |->
                IF Len(player_names) = 1 THEN << >>
                ELSE ComparisonRows(Column(contrib_dfs[1], "Category"),
                                    player_names, contrib_dfs),
              radar |-> build_radar(contrib_dfs, player_names),
              gw_tables |-> [i \in 1..Len(shown) |-> GwTable(shown[i], gw1, gw2)]]

(***************************************************************************)
(* Results of calls                                                        *)
(***************************************************************************)
NoCall ==
    [op |-> "none", player_id |-> 0, player_names |-> << >>,
     gw1 |-> 0, gw2 |-> 0, raised |-> "none", points |-> 0,
     overlay |-> EmptyOverlay]

\* the lists show_overlay is called with: one name, or two distinct names
NameLists ==
    {<< n >> : n \in PlayerIds}
      \cup {p \in {<< a, b >> : a \in PlayerIds, b \in PlayerIds} : p[1] # p[2]}

(***************************************************************************)
(* Session state (st.session_state) and the reset logic                    *)
(***************************************************************************)
Put(d, k, v) == (k :> v) @@ d

SetDefault(d, k, v) == IF k \in DOMAIN d THEN d ELSE Put(d, k, v)

\* a session before its first script run
EmptySession == << >>

\* What is on screen for the user to act upon: whether the page is the
\* overlay, with its Back button, the options of the second selector, and
\* the number of sidebar elements of the script (Script, below) that are
\* there, counted from its top.
NoPage ==
    [overlay |-> FALSE, compare_options |-> {}, rendered |-> 0]

\* weekly_df["round"]
AllRounds ==
    UNION {{weekly[p][i]["round"] : i \in 1..Len(weekly[p])} : p \in DOMAIN weekly}

\* int(weekly_df["round"].min()), int(weekly_df["round"].max())
min_gw == CHOOSE r \in AllRounds : \A q \in AllRounds : r <= q

max_gw == CHOOSE r \in AllRounds : \A q \in AllRounds : q <= r

\* SESSION STATE DEFAULTS: the writes of lines 11-24, in their order,
\* each made when the key is not in st.session_state
SessionDefaults ==
    << [key |-> "view_mode", value |-> "main"],
       [key |-> "selected_player", value |-> NoPlayer],
       [key |-> "compare_players", value |-> << >>],
       [key |-> "compare_dropdown", value |-> NoPlayer],
       [key |-> "reset_flag", value |-> FALSE] >>

trigger_reset(ss) == Put(ss, "reset_flag", TRUE)

apply_reset_keeps_players(ss, n) ==
    CASE n = 1 -> Put(ss, "team_filter", "All Teams")
      [] n = 2 -> Put(ss, "position_filter", "All")
      [] n = 3 -> Put(ss, "gw_slider", << min_gw, max_gw >>)
      [] n = 4 -> Put(ss, "sort_column", "Points (GW Range)")
      [] n = 5 -> Put(ss, "sort_order", "Descending")
      [] n = 6 -> Put(ss, "selected_player", NoPlayer)
      [] n = 7 -> Put(ss, "compare_dropdown", NoPlayer)
      [] n = 8 -> ss
      [] n = 9 -> Put(ss, "view_mode", "main")

\* apply_reset: the n-th of its writes, lines 154-162
apply_reset(ss, n) ==
    CASE n = 1 -> Put(ss, "team_filter", "All Teams")
      [] n = 2 -> Put(ss, "position_filter", "All")
      [] n = 3 -> Put(ss, "gw_slider", << min_gw, max_gw >>)
      [] n = 4 -> Put(ss, "sort_column", "Points (GW Range)")
      [] n = 5 -> Put(ss, "sort_order", "Descending")
      [] n = 6 -> Put(ss, "selected_player", NoPlayer)
      [] n = 7 -> Put(ss, "compare_dropdown", NoPlayer)
      [] n = 8 -> Put(ss, "compare_players", << >>)
      [] n = 9 -> Put(ss, "view_mode", "main")

(***************************************************************************)
(* Sidebar widgets, with their option lists; the data holds one team.      *)
(***************************************************************************)
TeamOptions == << "All Teams", "Arsenal" >>

PositionOptions == << "All", "GK", "DEF", "MID", "FWD" >>

SortColumnOptions ==
    << "Points (GW Range)", "Current Price", "Points Per Million",
       "Selected By %", "Template Value", "Differential Value" >>

SortOrderOptions == << "Descending", "Ascending" >>

SliderOptions == {r \in (min_gw..max_gw) \X (min_gw..max_gw) : r[1] <= r[2]}

PrimaryOptions == {NoPlayer} \cup PlayerIds

\* the options of the second selector, given the primary player
CompareOptions(primary_select) ==
    IF primary_select # NoPlayer /\ primary_select \in DOMAIN players
    THEN {NoPlayer} \cup {n \in PlayerIds :
                            players[n] = players[primary_select] /\ n # primary_select}
    ELSE {NoPlayer} \cup PlayerIds

\* in the order of their creation
FilterOrder ==
    << "team_filter", "position_filter", "gw_slider", "sort_column", "sort_order" >>

FilterKeys == {FilterOrder[j] : j \in 1..Len(FilterOrder)}

\* the option list of a selectbox or radio
OptionList(key) ==
    CASE key = "team_filter" -> TeamOptions
      [] key = "position_filter" -> PositionOptions
      [] key = "sort_column" -> SortColumnOptions
      [] key = "sort_order" -> SortOrderOptions

\* the values a filter widget offers
FilterOptions(key) ==
    IF key = "gw_slider" THEN SliderOptions
    ELSE {OptionList(key)[i] : i \in 1..Len(OptionList(key))}

\* the values a user's change of a filter widget is drawn from
Picks(key) ==
    IF key = "gw_slider" THEN SliderOptions
    ELSE {OptionList(key)[i] : i \in 1..Min(MaxOptions, Len(OptionList(key)))}

\* a new selectbox or radio shows its first option, the slider its value=
WidgetDefault(key) ==
    IF key = "gw_slider" THEN << min_gw, max_gw >> ELSE OptionList(key)[1]

\* a keyed widget takes its value from the session state, or its default
\* when the key is new
FilterWidget(ss, key) == SetDefault(ss, key, WidgetDefault(key))

\* The second selector.  With the options it had in the last run it keeps
\* its value.  When its options (and label) changed, a value that is no
\* longer offered falls back to "None"; a value that is still offered is
\* kept or falls back to "None", depending on how the framework identifies
\* the widget (keep chooses).
CompareWidget(ss, last_options, keep) ==
    LET options == CompareOptions(ss.selected_player)
    IN  IF options = last_options THEN ss
        ELSE IF ss.compare_dropdown \notin options \/ ~keep
        THEN Put(ss, "compare_dropdown", NoPlayer)
        ELSE ss

\* if st.button("View Player"): the write of line 248 (n = 1) and that of
\* line 249 (n = 2)
ViewPlayerPressed(ss, n) ==
    IF ss.selected_player # NoPlayer
    THEN IF n = 1 THEN Put(ss, "view_mode", "single")
         ELSE Put(ss, "compare_players", << ss.selected_player >>)
    ELSE ss

\* list(dict.fromkeys(chosen))
RECURSIVE Deduplicate(_)
Deduplicate(chosen) ==
    IF chosen = << >> THEN << >>
    ELSE LET init == Deduplicate(SubSeq(chosen, 1, Len(chosen) - 1))
             x == chosen[Len(chosen)]
         IN  IF \E i \in 1..Len(init) : init[i] = x THEN init ELSE Append(init, x)

Chosen(ss) ==
    Deduplicate(
        (IF ss.selected_player # NoPlayer THEN << ss.selected_player >> ELSE << >>)
        \o (IF ss.compare_dropdown # NoPlayer THEN << ss.compare_dropdown >> ELSE << >>))

\* if st.button("Compare Players"): the write of line 261 (n = 1) and that
\* of line 262 (n = 2)
ComparePlayersPressed(ss, n) ==
    LET chosen == Chosen(ss)
    IN  IF Len(chosen) >= 2
        THEN IF n = 1 THEN Put(ss, "compare_players", SubSeq(chosen, 1, 2))
             ELSE Put(ss, "view_mode", "compare")
        ELSE ss

(***************************************************************************)
(* The script as the sequence of its steps.  A step starts with a call of  *)
(* st.* or an access to st.session_state, the places where a run yields    *)
(* to an event, and makes at most one write to st.session_state.  `call'   *)
(* names the element a step puts on screen.  Calls of st.* between two     *)
(* steps that create no widget (215, 216, 243, 264, 674, 675) are part of  *)
(* the step before them: a run stopped there leaves what a run stopped at  *)
(* the next step leaves.  set_background calls st.markdown when bg1.png    *)
(* exists; its step writes nothing either way.                             *)
(***************************************************************************)
Write(do, n) == [do |-> do, n |-> n, call |-> "none"]

Element(do, call) == [do |-> do, n |-> 0, call |-> call]

Script ==
    [j \in 1..Len(SessionDefaults) |-> Write("default", j)]         \* 11-24
    \o << Element("call", "set_background") >>                      \* 37
    \o [j \in 1..9 |-> Write("reset", j)]                           \* 166, 154-162
    \o << Write("clear_flag", 0),                                   \* 168
          Element("call", "sidebar_title") >>                       \* 174
    \o [j \in 1..Len(FilterOrder) |-> Element("filter", FilterOrder[j])]  \* 176-213
    \o << Element("call", "selected_player"),                       \* 218
          Element("compare_widget", "compare_dropdown"),            \* 237
          Element("call", "view_player"),                           \* 246
          Write("view", 1), Write("view", 2),                       \* 247-249
          Element("call", "compare_players"),                       \* 252
          Write("compare", 1), Write("compare", 2),                 \* 254-262
          Element("call", "reset_all"),                             \* 265
          Element("page", "page"),                                  \* 672
          Element("page", "back"),                                  \* 503
          Write("back", 0),                                         \* 504, 149
          Element("page", "page_body") >>                           \* 505-

\* the number of sidebar elements (and of those above the sidebar) the
\* steps before step k put on screen
CallsBefore ==
    SubSeq([k \in 1..(Len(Script) + 1) |->
               Cardinality({j \in 1..(k - 1) :
                               Script[j].call # "none" /\ Script[j].do # "page"})],
           1, Len(Script) + 1)

\* the step that creates an element, and its number among the elements
StepOf(call) == CHOOSE k \in 1..Len(Script) : Script[k].call = call

At(call) == CallsBefore[StepOf(call)] + 1

FirstWidget == At("team_filter")

SelectorStep == StepOf("compare_dropdown")

BackStep == StepOf("back")

\* PAGE CONTENT: the branch of lines 678-688
Dispatch(ss) ==
    IF ss.view_mode = "single" /\ ss.selected_player # NoPlayer THEN "overlay"
    ELSE IF ss.view_mode = "compare" /\ Len(ss.compare_players) >= 2 THEN "overlay"
    ELSE IF ss.view_mode = "main" THEN "main"
    ELSE "blank"

\* One step of a run on the session state.  pressed is the button whose
\* click started the run; last_options and keep are for the second
\* selector.
Exec(ss, step, last_options, keep, pressed) ==
    CASE step.do = "default" ->
             SetDefault(ss, SessionDefaults[step.n].key, SessionDefaults[step.n].value)
      [] step.do = "reset" ->
             IF ss.reset_flag THEN apply_reset(ss, step.n) ELSE ss
      [] step.do = "clear_flag" ->
             IF ss.reset_flag THEN Put(ss, "reset_flag", FALSE) ELSE ss
      [] step.do = "filter" -> FilterWidget(ss, step.call)
      [] step.do = "compare_widget" -> CompareWidget(ss, last_options, keep)
      [] step.do = "view" ->
             IF pressed = "view" THEN ViewPlayerPressed(ss, step.n) ELSE ss
      [] step.do = "compare" ->
             IF pressed = "compare" THEN ComparePlayersPressed(ss, step.n) ELSE ss
      [] step.do = "back" ->
             IF pressed = "back" /\ Dispatch(ss) = "overlay"
             THEN trigger_reset(ss) ELSE ss
      [] OTHER -> ss

\* The session states of a run, step by step: Trace[k] is the state in
\* which step k starts, Trace[Len(Script) + 1] the one the last step leaves.
RECURSIVE TraceFrom(_, _, _, _, _, _)
TraceFrom(acc, k, last, last_options, keep, pressed) ==
    IF k > last THEN acc
    ELSE TraceFrom(Append(acc, Exec(acc[k], Script[k], last_options, keep, pressed)),
                   k + 1, last, last_options, keep, pressed)

\* the steps before the second selector
TraceHead(ss, pressed) == TraceFrom(<< ss >>, 1, SelectorStep - 1, {}, TRUE, pressed)

\* the second selector and the steps after it
Trace(head, last_options, keep, pressed) ==
    TraceFrom(head, SelectorStep, Len(Script), last_options, keep, pressed)

\* the outcomes of the second selector that differ
Keeps(ss, last_options) ==
    {keep \in BOOLEAN :
        keep \/ CompareWidget(ss, last_options, FALSE) # CompareWidget(ss, last_options, TRUE)}

\* What is on screen when a run starts step k: the elements of the steps
\* before k have replaced or joined those of earlier runs; the page is the
\* new one once its head and, in the overlay, the Back button are there.
PageAt(ss, k) ==
    [overlay |-> IF k > BackStep THEN Dispatch(ss) = "overlay" ELSE page.overlay,
     compare_options |-> IF k > SelectorStep
                         THEN CompareOptions(ss.selected_player)
                         ELSE page.compare_options,
     rendered |-> IF CallsBefore[k] > page.rendered
                  THEN CallsBefore[k] ELSE page.rendered]

\* what a run that reaches its end leaves on screen
PageContent(ss) == PageAt(ss, Len(Script) + 1)

(***************************************************************************)
(* State machine                                                           *)
(***************************************************************************)
\* The loaded datasets.  The compare selector offers only players of the
\* primary player's position, so the players on view share one position;
\* weekly holds at most MaxRecords records in all (and at least one, or
\* the script stops at pd.concat), and a player without an entry in weekly
\* has no history.
Init ==
    /\ \E pos \in Positions : players = [p \in PlayerIds |-> pos]
    /\ \E S \in SUBSET PlayerIds :
         /\ weekly \in [S -> Histories]
         /\ TotalRecords(weekly, S) <= MaxRecords
         /\ TotalRecords(weekly, S) >= 1
    /\ out = NoCall
    /\ session_state = EmptySession
    /\ pc = "idle"
    /\ button = "none"
    /\ page = NoPage

\* A call reads the datasets only and leaves them alone, so a behaviour is
\* one call on the loaded data: any ids and rounds, ordered or not, since
\* the functions take them unchecked.  No call raises: raised stays "none".
GetPointsForRange ==
    \E player_id \in PlayerIds, gw1 \in Rounds, gw2 \in Rounds :
        /\ out.op = "none"
        /\ out' = [NoCall EXCEPT !.op = "get_points_for_range",
                                 !.player_id = player_id,
                                 !.gw1 = gw1, !.gw2 = gw2,
                                 !.points = get_points_for_range(player_id, gw1, gw2)]
        /\ UNCHANGED <<players, weekly, session_state, pc, button, page>>

ShowOverlay ==
    \E player_names \in NameLists, gw1 \in Rounds, gw2 \in Rounds :
        /\ out.op = "none"
        /\ out' = [NoCall EXCEPT !.op = "show_overlay",
                                 !.player_names = player_names,
                                 !.gw1 = gw1, !.gw2 = gw2,
                                 !.overlay = show_overlay(player_names, gw1, gw2)]
        /\ UNCHANGED <<players, weekly, session_state, pc, button, page>>

Next == GetPointsForRange \/ ShowOverlay

Spec == Init /\ [][Next]_vars

(***************************************************************************)
(* The session: user events and script runs.  A new session starts with    *)
(* its first run pending.  The slider needs min_gw < max_gw, so the        *)
(* weekly data spans two rounds; the session reads weekly only through     *)
(* these two bounds.  The players share a position or not, which is all    *)
(* the second selector asks of positions.                                  *)
(***************************************************************************)
SessionInit ==
    /\ players \in [PlayerIds -> {"GK", "DEF"}]
    /\ players[1] = "GK"
    /\ weekly = (1 :> << WithRound(FullMatch, 1), WithRound(FullMatch, 2) >>)
    /\ out = NoCall
    /\ session_state = EmptySession
    /\ pc = "run"
    /\ button = "none"
    /\ page = NoPage

\* A user event: the value of the widget is written (or the callback
\* runs) and a run of the script is due.  The elements on screen stay
\* usable while the script runs; an event that arrives during a run stops
\* it at its next step (StopRun) and is then taken like any other.
Interact(ss, pressed) ==
    /\ pc \in {"idle", "stopped"}
    /\ session_state' = ss
    /\ button' = pressed
    /\ pc' = "run"
    /\ UNCHANGED <<players, weekly, out, page>>

Rendered(call) == page.rendered >= At(call)

\* the user moves one of the filter widgets
ChangeFilter ==
    \E key \in FilterKeys :
        \E v \in Picks(key) :
            /\ pc \in {"idle", "stopped"}
            /\ Rendered(key)
            /\ v # session_state[key]
            /\ Interact(Put(session_state, key, v), "none")

SelectPrimary ==
    \E v \in PrimaryOptions :
        /\ pc \in {"idle", "stopped"}
        /\ Rendered("selected_player")
        /\ v # session_state.selected_player
        /\ Interact(Put(session_state, "selected_player", v), "none")

SelectCompare ==
    \E v \in page.compare_options :
        /\ pc \in {"idle", "stopped"}
        /\ Rendered("compare_dropdown")
        /\ v # session_state.compare_dropdown
        /\ Interact(Put(session_state, "compare_dropdown", v), "none")

ClickViewPlayer ==
    /\ Rendered("view_player")
    /\ Interact(session_state, "view")

ClickComparePlayers ==
    /\ Rendered("compare_players")
    /\ Interact(session_state, "compare")

\* st.sidebar.button("Reset All Filters", on_click=trigger_reset): the
\* callback runs before the script does
ClickResetAll ==
    /\ pc \in {"idle", "stopped"}
    /\ Rendered("reset_all")
    /\ Interact(trigger_reset(session_state), "none")

\* the overlay's Back button exists when the overlay is on screen
ClickBack ==
    /\ page.overlay
    /\ Interact(session_state, "back")

\* A run of the script that no event stops, top to bottom.  In
\* show_overlay a pressed Back button calls trigger_reset() and
\* st.rerun(): the run ends there and the next one is pending.
ScriptRun ==
    /\ pc = "run"
    /\ LET head == TraceHead(session_state, button)
       IN  \E keep \in Keeps(head[SelectorStep], page.compare_options) :
         LET trace == Trace(head, page.compare_options, keep, button)
         IN  IF button = "back" /\ Dispatch(trace[BackStep]) = "overlay"
             THEN /\ session_state' = trace[BackStep + 2]
                  /\ pc' = "run"
                  /\ page' = PageAt(trace[BackStep + 2], BackStep + 2)
             ELSE /\ session_state' = trace[Len(Script) + 1]
                  /\ pc' = "idle"
                  /\ page' = PageContent(trace[Len(Script) + 1])
    /\ button' = "none"
    /\ UNCHANGED <<players, weekly, out>>

\* The steps at which an event can stop a run: an event comes from a
\* widget that is on screen, from an earlier run or from this one, and a
\* run in which Back is pressed in the overlay does not get beyond
\* st.rerun().
StopPoints(trace) ==
    {k \in 1..Len(Script) :
        /\ (page.rendered >= FirstWidget \/ CallsBefore[k] >= FirstWidget)
        /\ ~(/\ k > BackStep + 1
             /\ button = "back"
             /\ Dispatch(trace[BackStep]) = "overlay")}

\* A run that an event stops at step k: the session state written so far
\* is kept, what the run would have done from step k on is lost (a pressed
\* button included), and the event is taken next.
StoppedAt(trace, k) == << trace[k], PageAt(trace[k], k) >>

StopRun ==
    /\ pc = "run"
    /\ \E stopped \in
           LET head == TraceHead(session_state, button)
           IN  UNION {LET trace == Trace(head, page.compare_options, keep, button)
                      IN  {StoppedAt(trace, k) : k \in StopPoints(trace)} :
                      keep \in Keeps(head[SelectorStep], page.compare_options)} :
         /\ session_state' = stopped[1]
         /\ page' = stopped[2]
    /\ pc' = "stopped"
    /\ button' = "none"
    /\ UNCHANGED <<players, weekly, out>>

SessionNext ==
    \/ ChangeFilter
    \/ SelectPrimary
    \/ SelectCompare
    \/ ClickViewPlayer
    \/ ClickComparePlayers
    \/ ClickResetAll
    \/ ClickBack
    \/ ScriptRun
    \/ StopRun

SessionSpec == SessionInit /\ [][SessionNext]_vars

(***************************************************************************)
(* Vocabulary of the properties.  These are written from the weekly data   *)
(* by index sets, independently of the operators above.                    *)
(***************************************************************************)
OverlayCalled == out.op = "show_overlay"

RangeCalled == out.op = "get_points_for_range"

\* positions of the breakdowns the overlay computed, and whose they are
Shown == 1..Len(out.overlay.contrib_dfs)

NameAt(i) == out.overlay.meta_rows[i].Player

FrameAt(i) == out.overlay.contrib_dfs[i]

\* indices of the player's records whose round lies in [a, b]
MatchIdx(name, a, b) ==
    {k \in 1..Len(WeeklyGet(name)) :
        a <= WeeklyGet(name)[k]["round"] /\ WeeklyGet(name)[k]["round"] <= b}

MatchAt(name, k) == WeeklyGet(name)[k]

\* the matches of breakdown i
MatchesOf(i) == MatchIdx(NameAt(i), out.gw1, out.gw2)

RECURSIVE SumIdx(_, _)
SumIdx(I, f) ==
    IF I = {} THEN 0
    ELSE LET k == CHOOSE x \in I : TRUE IN f[k] + SumIdx(I \ {k}, f)

\* sum of total_points over the records in the range
RangeTotal(name, a, b) ==
    SumIdx(MatchIdx(name, a, b),
           [k \in MatchIdx(name, a, b) |-> MatchAt(name, k).total_points])

CategorySum(df_c) == SumIdx(1..Len(df_c), [k \in 1..Len(df_c) |-> df_c[k].Points])

\* the residual entry of a breakdown, read as the code reads any category
Residual(df_c) == PointsOf(df_c, "Unattributed")

AllZero(df_c) == \A k \in 1..Len(df_c) : df_c[k].Points = 0

(***************************************************************************)
(* C1  Reconciliation: for every position and range, the categories of a   *)
(* breakdown plus its residual entry ('Unattributed') add up exactly to    *)
(* the sum of total_points over the records in the range.                  *)
(***************************************************************************)
C1_Reconciliation ==
    OverlayCalled =>
        \A i \in Shown :
            CategorySum(FrameAt(i)) + Residual(FrameAt(i))
                = RangeTotal(NameAt(i), out.gw1, out.gw2)

(***************************************************************************)
(* C2  Multi-match minutes: the Minutes category is the sum over the       *)
(* matches in the range of 2 if that match's minutes >= 60, 1 if           *)
(* 0 < minutes < 60, 0 otherwise; the summed minutes are never classified. *)
(***************************************************************************)
PerMatchAppearance(m) == IF m >= 60 THEN 2 ELSE IF m > 0 THEN 1 ELSE 0

C2_MinutesPerMatch ==
    OverlayCalled =>
        \A i \in Shown :
            PointsOf(FrameAt(i), "Minutes")
                = SumIdx(MatchesOf(i),
                      [k \in MatchesOf(i) |->
                          PerMatchAppearance(MatchAt(NameAt(i), k).minutes)])

\* two 40-minute matches in the range give 1 + 1
C2_Witness ==
    /\ OverlayCalled
    /\ \E i \in Shown :
         /\ Cardinality(MatchesOf(i)) = 2
         /\ \A k \in MatchesOf(i) : MatchAt(NameAt(i), k).minutes = 40
         /\ PointsOf(FrameAt(i), "Minutes") = 2

(***************************************************************************)
(* C3  Range additivity: for every player id and rounds a <= b < c,        *)
(* get_points_for_range(id, a, c) = get_points_for_range(id, a, b)         *)
(* + get_points_for_range(id, b+1, c), also for players without history    *)
(* and ranges without a recorded round.                                    *)
(***************************************************************************)
C3_RangeAdditivity ==
    RangeCalled =>
        \A b \in out.gw1..(out.gw2 - 1) :
            out.points = get_points_for_range(out.player_id, out.gw1, b)
                         + get_points_for_range(out.player_id, b + 1, out.gw2)

\* a range split so that both parts hold points
C3_Witness ==
    /\ RangeCalled
    /\ \E b \in out.gw1..(out.gw2 - 1) :
         /\ RangeTotal(out.player_id, out.gw1, b) # 0
         /\ RangeTotal(out.player_id, b + 1, out.gw2) # 0
         /\ out.points = RangeTotal(out.player_id, out.gw1, out.gw2)

(***************************************************************************)
(* C4  Empty-range boundary: for a player with no record in [start, end],  *)
(* a player with no history at all included, the breakdown is computed     *)
(* without error and has every category 0 and residual 0, and the range    *)
(* total is 0.                                                             *)
(***************************************************************************)
C4_EmptyRangeAllZero ==
    OverlayCalled =>
        \A j \in 1..Len(out.player_names) :
            MatchIdx(out.player_names[j], out.gw1, out.gw2) = {} =>
                /\ out.raised = "none"
                /\ get_points_for_range(out.player_names[j], out.gw1, out.gw2) = 0
                /\ \E i \in Shown :
                     /\ NameAt(i) = out.player_names[j]
                     /\ Len(FrameAt(i)) > 0
                     /\ AllZero(FrameAt(i))
                     /\ Residual(FrameAt(i)) = 0
                     /\ out.overlay.totals[i] = 0

(***************************************************************************)
(* C5  Comparison tie.  Original statement: a cell of the comparison is    *)
(* marked as the winner only if its points are strictly greater than the   *)
(* other player's; with equal points neither cell is marked.               *)
(***************************************************************************)
Compared == OverlayCalled /\ out.overlay.comparison # << >>

CellsOf(c) == out.overlay.comparison[c].cells

C5_StrictWinnerOnly ==
    Compared =>
        \A c \in 1..Len(out.overlay.comparison) :
            \A j \in 1..Len(CellsOf(c)) :
                CellsOf(c)[j].star =>
                    \A l \in 1..Len(CellsOf(c)) :
                        l # j => CellsOf(c)[j].pts > CellsOf(c)[l].pts

\* C5 as amended: a cell is marked exactly when its points equal the
\* largest points of its row and that largest value is above 0; so equal
\* positive values are both marked, and nothing is marked at 0 or below.
RowMax(c) == MaxOf({CellsOf(c)[l].pts : l \in 1..Len(CellsOf(c))})

C5_StarIffPositiveMax ==
    Compared =>
        \A c \in 1..Len(out.overlay.comparison) :
            \A j \in 1..Len(CellsOf(c)) :
                CellsOf(c)[j].star
                    <=> (RowMax(c) > 0 /\ CellsOf(c)[j].pts = RowMax(c))

\* two players with history, equal positive Bonus, both cells marked
C5_Witness ==
    /\ Compared
    /\ Len(out.overlay.contrib_dfs) = 2
    /\ \E c \in 1..Len(out.overlay.comparison) :
         /\ out.overlay.comparison[c].Category = "Bonus"
         /\ CellsOf(c)[1].pts = CellsOf(c)[2].pts
         /\ CellsOf(c)[1].pts > 0
         /\ CellsOf(c)[1].star /\ CellsOf(c)[2].star

(***************************************************************************)
(* C6  InvalidRange: a range with start > end is rejected with             *)
(* InvalidRange; no total and no breakdown is returned for it.             *)
(***************************************************************************)
C6_InvalidRangeRejected ==
    (out.op # "none" /\ out.gw1 > out.gw2) => out.raised = "InvalidRange"

(***************************************************************************)
(* C7  Canonical category sequence: every breakdown is the sequence        *)
(* Minutes, Goals, Assists, Clean Sheets, Saves, Goals Conceded, Cards,    *)
(* Own Goals, Penalties, Bonus, Defensive Contribution, Unattributed.      *)
(***************************************************************************)
CanonicalSequence ==
    << "Minutes", "Goals", "Assists", "Clean Sheets", "Saves",
       "Goals Conceded", "Cards", "Own Goals", "Penalties", "Bonus",
       "Defensive Contribution", "Unattributed" >>

C7_CanonicalSequence ==
    OverlayCalled =>
        \A i \in Shown :
            [k \in 1..Len(FrameAt(i)) |-> FrameAt(i)[k].Category] = CanonicalSequence

(***************************************************************************)
(* C8  Defensive Contribution.  Original statement: the category is 2 if   *)
(* the defensive_contribution summed over the range reaches the            *)
(* position's threshold, else 0, so never more than 2.                     *)
(***************************************************************************)
HasDcThreshold(pos) == pos \in {"DEF", "MID", "FWD"}

DcThreshold(pos) == IF pos = "DEF" THEN 10 ELSE 12

\* a missing defensive_contribution counts as 0
DcField(r) ==
    IF "defensive_contribution" \in DOMAIN r THEN r.defensive_contribution ELSE 0

C8_OncePerRange ==
    OverlayCalled =>
        \A i \in Shown :
            LET pos == players[NameAt(i)]
                total == SumIdx(MatchesOf(i),
                            [k \in MatchesOf(i) |-> DcField(MatchAt(NameAt(i), k))])
            IN  PointsOf(FrameAt(i), "Defensive Contribution")
                  = IF HasDcThreshold(pos) /\ total >= DcThreshold(pos) THEN 2 ELSE 0

\* C8 as amended: the category is the sum over the matches in the range
\* of 2 for each match whose own defensive_contribution reaches the
\* position's threshold (10 for DEF, 12 for MID and FWD; GK scores 0); it
\* can exceed 2 over several matches; a missing field counts as 0.
C8_PerMatchBonus ==
    OverlayCalled =>
        \A i \in Shown :
            LET pos == players[NameAt(i)]
            IN  PointsOf(FrameAt(i), "Defensive Contribution")
                  = SumIdx(MatchesOf(i),
                        [k \in MatchesOf(i) |->
                            IF /\ HasDcThreshold(pos)
                               /\ DcField(MatchAt(NameAt(i), k)) >= DcThreshold(pos)
                            THEN 2 ELSE 0])

\* two matches that each reach the threshold give 4
C8_Witness ==
    /\ OverlayCalled
    /\ \E i \in Shown : PointsOf(FrameAt(i), "Defensive Contribution") = 4

(***************************************************************************)
(* C9  Saves.  Original statement: the category is floor(S / 3) with S the *)
(* saves summed over the range, for the position that counts saves (GK),   *)
(* and 0 for every other position.                                         *)
(***************************************************************************)
SavesInRange(i) ==
    SumIdx(MatchesOf(i), [k \in MatchesOf(i) |-> MatchAt(NameAt(i), k).saves])

C9_FloorOfRangeSaves ==
    OverlayCalled =>
        \A i \in Shown :
            PointsOf(FrameAt(i), "Saves")
              = IF players[NameAt(i)] = "GK" THEN SavesInRange(i) \div 3 ELSE 0

\* C9 as amended: the category is the sum over the matches in the range
\* of floor(that match's saves / 3), for every position.
C9_PerMatchFloor ==
    OverlayCalled =>
        \A i \in Shown :
            PointsOf(FrameAt(i), "Saves")
              = SumIdx(MatchesOf(i),
                    [k \in MatchesOf(i) |-> MatchAt(NameAt(i), k).saves \div 3])

\* a goalkeeper whose per-match floors add up to less than floor(S / 3)
C9_Witness ==
    /\ OverlayCalled
    /\ \E i \in Shown :
         /\ players[NameAt(i)] = "GK"
         /\ Cardinality(MatchesOf(i)) = 2
         /\ PointsOf(FrameAt(i), "Saves") > 0
         /\ PointsOf(FrameAt(i), "Saves") < SavesInRange(i) \div 3

(***************************************************************************)
(* C10  Clean Sheets: the category is the number of matches in the range   *)
(* with minutes >= 60 and a clean sheet in that same match, times the      *)
(* position's coefficient (GK 4, DEF 4, MID 1, FWD 0).                     *)
(***************************************************************************)
CleanSheetCoefficient(pos) ==
    CASE pos = "GK" -> 4 [] pos = "DEF" -> 4 [] pos = "MID" -> 1 [] pos = "FWD" -> 0

EligibleCleanSheetMatches(i) ==
    {k \in MatchesOf(i) :
        /\ MatchAt(NameAt(i), k).minutes >= 60
        /\ MatchAt(NameAt(i), k).clean_sheets > 0}

C10_CleanSheets ==
    OverlayCalled =>
        \A i \in Shown :
            PointsOf(FrameAt(i), "Clean Sheets")
              = Cardinality(EligibleCleanSheetMatches(i))
                  * CleanSheetCoefficient(players[NameAt(i)])

\* one eligible match and one clean sheet on under 60 minutes, counted once
C10_Witness ==
    /\ OverlayCalled
    /\ \E i \in Shown :
         /\ Cardinality(EligibleCleanSheetMatches(i)) = 1
         /\ \E k \in MatchesOf(i) :
              /\ MatchAt(NameAt(i), k).clean_sheets > 0
              /\ MatchAt(NameAt(i), k).minutes < 60
         /\ players[NameAt(i)] = "DEF"
         /\ PointsOf(FrameAt(i), "Clean Sheets") = 4

(***************************************************************************)
(* Vocabulary of the session properties                                    *)
(***************************************************************************)
SessionStarted == "reset_flag" \in DOMAIN session_state

ResetRequested == SessionStarted /\ session_state.reset_flag

RunPending == pc = "run"

RunCompleted == pc = "idle"

RunStopped == pc = "stopped"

\* the round is the smallest (largest) one recorded in weekly
IsFirstRound(r) ==
    /\ \E p \in DOMAIN weekly : \E k \in 1..Len(weekly[p]) : weekly[p][k]["round"] = r
    /\ \A p \in DOMAIN weekly : \A k \in 1..Len(weekly[p]) : r <= weekly[p][k]["round"]

IsLastRound(r) ==
    /\ \E p \in DOMAIN weekly : \E k \in 1..Len(weekly[p]) : weekly[p][k]["round"] = r
    /\ \A p \in DOMAIN weekly : \A k \in 1..Len(weekly[p]) : weekly[p][k]["round"] <= r

\* the keys apply_reset writes, in the order of its lines
ResetOrder ==
    << "team_filter", "position_filter", "gw_slider", "sort_column", "sort_order",
       "selected_player", "compare_dropdown", "compare_players", "view_mode" >>

\* the key holds the value a reset gives it
IsReset(ss, key) ==
    CASE key = "team_filter" -> ss[key] = "All Teams"
      [] key = "position_filter" -> ss[key] = "All"
      [] key = "gw_slider" -> IsFirstRound(ss[key][1]) /\ IsLastRound(ss[key][2])
      [] key = "sort_column" -> ss[key] = "Points (GW Range)"
      [] key = "sort_order" -> ss[key] = "Descending"
      [] key = "selected_player" -> ss[key] = NoPlayer
      [] key = "compare_dropdown" -> ss[key] = NoPlayer
      [] key = "compare_players" -> ss[key] = << >>
      [] key = "view_mode" -> ss[key] = "main"

IsResetState(ss) ==
    /\ \A j \in 1..Len(ResetOrder) : IsReset(ss, ResetOrder[j])
    /\ ss.reset_flag = FALSE

\* after is before with the first n keys of the reset written and nothing
\* else changed: the reset is still due
IsResetStoppedAfter(before, after, n) ==
    /\ DOMAIN after = DOMAIN before
    /\ after.reset_flag = TRUE
    /\ \A j \in 1..Len(ResetOrder) :
           IF j <= n THEN IsReset(after, ResetOrder[j])
           ELSE after[ResetOrder[j]] = before[ResetOrder[j]]

(***************************************************************************)
(* C11  Reset protocol.  Original statement: when trigger_reset has been   *)
(* invoked (Reset All Filters, or Back in the overlay), from any session   *)
(* state, the next run of the script applies the reset and ends with       *)
(* view_mode "main", both selectors on "None", compare_players empty, the  *)
(* team, position and sort filters at their defaults, gw_slider =          *)
(* (min_gw, max_gw) and reset_flag False.                                  *)
(***************************************************************************)
C11_NextRunResets ==
    [][(RunPending /\ ResetRequested)
         => (~RunPending /\ IsResetState(session_state))']_vars

(***************************************************************************)
(* C11  Reset protocol, as the script has it: a run that starts with       *)
(* reset_flag True and is carried to its end ends in the reset state       *)
(* above.  A run that a user event stops leaves either the reset state     *)
(* (it was stopped after line 168), or reset_flag still True and of the    *)
(* nine keys of apply_reset the first n, in the order of lines 154-162,    *)
(* reset and the others as they were, for some n from 0 to 9 (it was       *)
(* stopped before line 168): the reset is then made, from its first line,  *)
(* by the run that follows.  No completed run leaves reset_flag True.      *)
(***************************************************************************)
C11_ResetProtocol ==
    /\ [][(RunPending /\ ResetRequested)
            => \/ (RunCompleted /\ IsResetState(session_state))'
               \/ (RunStopped /\ IsResetState(session_state))'
               \/ /\ RunStopped'
                  /\ \E n \in 0..Len(ResetOrder) :
                         IsResetStoppedAfter(session_state, session_state', n)]_vars
    /\ [](RunCompleted /\ SessionStarted => ~session_state.reset_flag)

\* a reset requested in compare mode, with a filter and the slider moved
C11_Witness ==
    /\ RunPending
    /\ ResetRequested
    /\ session_state.view_mode = "compare"
    /\ Len(session_state.compare_players) = 2
    /\ session_state.compare_dropdown # NoPlayer
    /\ session_state.team_filter # "All Teams"
    /\ ~IsFirstRound(session_state.gw_slider[1])
    /\ page.overlay

(***************************************************************************)
(* C12  Compare-mode invariant: in every session state reachable through   *)
(* any sequence of View Player, Compare Players, reset and selection       *)
(* changes, view_mode "compare" implies that compare_players holds exactly *)
(* two distinct player names, neither of them "None".  (The claim adds     *)
(* that Compare Players pressed with fewer than two distinct selections    *)
(* writes neither key, which is lines 253-262.)                            *)
(***************************************************************************)
C12_CompareMode ==
    (SessionStarted /\ session_state.view_mode = "compare")
      => /\ Len(session_state.compare_players) = 2
         /\ session_state.compare_players[1] # session_state.compare_players[2]
         /\ \A k \in 1..2 : /\ session_state.compare_players[k] # NoPlayer
                            /\ session_state.compare_players[k] \in DOMAIN players

(***************************************************************************)
(* C13  Name/breakdown alignment: in an overlay of two players, the points *)
(* shown under a player's name in the comparison table and in the radar    *)
(* chart are those of the breakdown computed from that player's own        *)
(* history, also when one of the two has no history and is skipped; under  *)
(* the name of a skipped player no points of anybody else are shown.       *)
(***************************************************************************)
OwnFrame(name) == FrameAt(CHOOSE i \in Shown : NameAt(i) = name)

HasOwnFrame(name) == \E i \in Shown : NameAt(i) = name

C13_NameAlignment ==
    (OverlayCalled /\ Len(out.player_names) = 2)
      => /\ \A k \in 1..Len(out.overlay.comparison) :
              LET row == out.overlay.comparison[k]
              IN  \A j \in 1..Len(row.cells) :
                      row.cells[j].pts =
                          IF HasOwnFrame(row.cells[j].Player)
                          THEN PointsOf(OwnFrame(row.cells[j].Player), row.Category)
                          ELSE 0
         /\ \A t \in 1..Len(out.overlay.radar) :
              LET trace == out.overlay.radar[t]
              IN  \A c \in 1..Len(trace.theta) :
                      trace.r[c] =
                          IF HasOwnFrame(trace.name)
                          THEN PointsOf(OwnFrame(trace.name), trace.theta[c])
                          ELSE 0

====
